---- MODULE Spec2Model ----
(***************************************************************************)
(* Model of scanner.py (NIP-90 DVM scanner): scan_for_dvms loads the       *)
(* vendor registry from DATA_FILE, runs the announcement, result and       *)
(* request phases against the relays, merges every returned event into the *)
(* in-memory dict `vendors`, then saves it and prints a summary.           *)
(*                                                                         *)
(* A vendor record is a Python dict; it is modelled as a function from the *)
(* field names it holds to their values, so that a field that was never    *)
(* set ("results", "last_seen", "request_count") is absent from its        *)
(* DOMAIN, as in the code.                                                 *)
(***************************************************************************)
EXTENDS Integers, Sequences, FiniteSets, TLC

\* ------------------------------------------------------------------ bounds
\* datetime.now() is read as a value of 1..MaxTime.
MaxTime == 2
\* A query returns at most MaxBatch events.
MaxBatch == 2
\* The relays deliver at most MaxEvents events to one scan.
MaxEvents == 2
\* Number of result filters and of request filters (10 each in the source).
NumResultFilters == 2
NumRequestFilters == 2

\* --------------------------------------------------------------- constants
ANNOUNCEMENT_KIND == 31990
FIRST_RESULT_KIND == 6000
FIRST_REQUEST_KIND == 5000
CONTENT_LIMIT == 500

Time == 1..MaxTime
ResultKinds == FIRST_RESULT_KIND..(FIRST_RESULT_KIND + NumResultFilters - 1)
RequestKinds == FIRST_REQUEST_KIND..(FIRST_REQUEST_KIND + NumRequestFilters - 1)

\* ------------------------------------------------------------------ events
\* A tag of an event.  ok = FALSE is a tag whose as_vec() raises.
Tag(v) == [ok |-> TRUE, vec |-> v]
BadTag == [ok |-> FALSE, vec |-> <<>>]

\* A string of n code units.
Str(n) == [i \in 1..n |-> "c"]

\* fault: "none", or the accessor that raises: "author" (event.author()),
\* "body" (event.id() / created_at() / content()).
Event(id, author, created, content, tags, fault) ==
    [id |-> id, author |-> author, created_at |-> created, content |-> content,
     tags |-> tags, fault |-> fault, kind |-> 0]

\* The events the relays may return to the announcement query.
AnnouncementEvents ==
    { Event("a1", "X", 1, Str(2), <<Tag(<<"d", "svc1">>), Tag(<<"k", "5000">>)>>, "none"),
      Event("a2", "X", 2, Str(0), <<Tag(<<"d", "svc2">>), Tag(<<"d", "svc1">>)>>, "none"),
      Event("a3", "Y", 1, Str(1), <<Tag(<<"d", "svc1">>), Tag(<<"d">>), Tag(<<"d", "svc1">>)>>, "none"),
      Event("a4", "Y", 2, Str(1), <<Tag(<<"d", "svc2">>), BadTag>>, "none"),
      Event("a5", "X", 2, Str(1), <<Tag(<<"d", "svc2">>)>>, "author") }

\* The events the relays may return to a result query.
ResultEvents ==
    { Event("r1", "X", 1, Str(600), <<>>, "none"),
      Event("r2", "Y", 2, Str(3), <<Tag(<<"p", "X">>)>>, "none"),
      Event("r3", "Y", 1, Str(1), <<>>, "author"),
      Event("r4", "Y", 2, Str(1), <<>>, "body") }

\* The events the relays may return to a request query.
RequestEvents ==
    { Event("q1", "U", 1, Str(1), <<Tag(<<"p", "X">>), Tag(<<"p", "Z">>)>>, "none"),
      Event("q2", "U", 2, Str(1), <<Tag(<<"p", "X">>), Tag(<<"p", "X">>)>>, "none"),
      Event("q3", "U", 1, Str(1), <<Tag(<<"p", "Y">>), BadTag, Tag(<<"p", "Y">>)>>, "none"),
      Event("q4", "Y", 2, Str(1), <<Tag(<<"p">>), Tag(<<"e", "X">>), Tag(<<"p", "Y">>)>>, "none") }

\* Every sequence over S of length at most n.
SeqsUpTo(S, n) == UNION { [1..m -> S] : m \in 0..n }

\* ----------------------------------------------------------------- helpers
Has(rec, f) == f \in DOMAIN rec

\* dict assignment rec[f] = val
Put(rec, f, val) == (f :> val) @@ rec

\* dict.get(f, default)
Get(rec, f, default) == IF Has(rec, f) THEN rec[f] ELSE default

\* author().to_bech32(): the human-readable encoding of a public key
ToBech32(pubkey) == <<"npub1", pubkey>>


HasBadTag(tags) == \E i \in 1..Len(tags) : ~tags[i].ok

\* [[str(t) for t in tag.as_vec()] for tag in event.tags()]
TagVecs(tags) == [i \in 1..Len(tags) |-> tags[i].vec]

\* Mutant: the slice keeps one code unit too many.
TruncateOffByOne(content) ==
    SubSeq(content, 1,
           IF Len(content) < CONTENT_LIMIT + 1 THEN Len(content) ELSE CONTENT_LIMIT + 1)

\* content[:500]
Truncate(content) ==
    SubSeq(content, 1, IF Len(content) < CONTENT_LIMIT THEN Len(content) ELSE CONTENT_LIMIT)

\* ------------------------------------------------------ announcement phase
\* The record created for an unseen announcement author.
NewAnnouncementVendor(pubkey, now) ==
    [pubkey |-> pubkey, npub |-> ToBech32(pubkey), first_seen |-> now,
     announcements |-> <<>>, services |-> <<>>]

\* Mutant: a new author rebinds the registry to a dict holding only its record.
EnsureAnnouncementVendorRebinding(vs, pubkey, now) ==
    IF pubkey \in DOMAIN vs THEN vs
    ELSE (pubkey :> [pubkey |-> pubkey, npub |-> ToBech32(pubkey), first_seen |-> now,
                     announcements |-> <<>>, services |-> <<>>])

\* if pubkey not in vendors: vendors[pubkey] = {...}
EnsureAnnouncementVendor(vs, pubkey, now) ==
    IF pubkey \in DOMAIN vs THEN vs
    ELSE (pubkey :> NewAnnouncementVendor(pubkey, now)) @@ vs

\* Mutant: created_at is taken from the clock instead of the event.
AnnouncementDataClockCreated(e, now) ==
    [event_id |-> e.id, created_at |-> now, content |-> e.content,
     tags |-> TagVecs(e.tags), discovered_at |-> now]

\* announcement_data = {...}
AnnouncementData(e, now) ==
    [event_id |-> e.id, created_at |-> e.created_at, content |-> e.content,
     tags |-> TagVecs(e.tags), discovered_at |-> now]

\* Mutant: the services list is not searched before appending.
ServiceNeverKnown(rec, service_id) == FALSE

\* service_id in [s.get("id") for s in vendors[pubkey]["services"]]
ServiceKnown(rec, service_id) ==
    \E i \in 1..Len(rec["services"]) : rec["services"][i].id = service_id

\* One iteration of the tag loop of the announcement phase.
AnnouncementTag(rec, tag) ==
    IF Len(tag.vec) >= 2 /\ tag.vec[1] = "d" /\ ~ServiceKnown(rec, tag.vec[2])
    THEN Put(rec, "services",
             Append(rec["services"], [id |-> tag.vec[2], type |-> "unknown"]))
    ELSE rec

RECURSIVE AnnouncementTags(_, _)
AnnouncementTags(rec, tags) ==
    IF tags = <<>> THEN rec
    ELSE AnnouncementTags(AnnouncementTag(rec, Head(tags)), Tail(tags))

\* Mutant: the merge also stamps first_seen.
RecordAnnouncementRestamping(rec, e, now) ==
    Put(Put(Put(rec, "announcements",
                Append(rec["announcements"], AnnouncementData(e, now))),
            "last_seen", now),
        "first_seen", now)

\* vendors[pubkey]["announcements"].append(..); vendors[pubkey]["last_seen"] = now
RecordAnnouncement(rec, e, now) ==
    Put(Put(rec, "announcements", Append(rec["announcements"], AnnouncementData(e, now))),
        "last_seen", now)

\* Whether the body of the announcement loop raises on event e.
AnnouncementRaises(e) == e.fault # "none" \/ HasBadTag(e.tags)

\* The body of the announcement loop on one event, its try/except included:
\* the registry it leaves.  author() raises before anything is written; id(),
\* content() and the tag conversion raise after the record has been created.
MergeAnnouncement(vs, e, now) ==
    IF e.fault = "author" THEN vs
    ELSE LET created == EnsureAnnouncementVendor(vs, e.author, now) IN
         IF e.fault = "body" \/ HasBadTag(e.tags) THEN created
         ELSE LET rec == RecordAnnouncement(created[e.author], e, now) IN
              Put(created, e.author, AnnouncementTags(rec, e.tags))

\* ------------------------------------------------------------ result phase
\* Mutant: the result phase creates its record without the npub field.
NewResultVendorNoNpub(pubkey, now) ==
    [pubkey |-> pubkey, first_seen |-> now,
     announcements |-> <<>>, services |-> <<>>, results |-> <<>>]

\* The record created for an unseen result author.
NewResultVendor(pubkey, now) ==
    [pubkey |-> pubkey, npub |-> ToBech32(pubkey), first_seen |-> now,
     announcements |-> <<>>, services |-> <<>>, results |-> <<>>]

EnsureResultVendor(vs, pubkey, now) ==
    IF pubkey \in DOMAIN vs THEN vs
    ELSE (pubkey :> NewResultVendor(pubkey, now)) @@ vs

\* Mutant: the results list is reset on every result event.
EnsureResultsReset(rec) == Put(rec, "results", <<>>)

\* if "results" not in vendors[pubkey]: vendors[pubkey]["results"] = []
EnsureResults(rec) == IF Has(rec, "results") THEN rec ELSE Put(rec, "results", <<>>)

ResultData(e, now) ==
    [event_id |-> e.id, kind |-> e.kind, created_at |-> e.created_at,
     content |-> Truncate(e.content), discovered_at |-> now]

RecordResult(rec, e, now) ==
    Put(Put(rec, "results", Append(rec["results"], ResultData(e, now))),
        "last_seen", now)

\* Whether the body of the result loop raises on event e (tags are not read).
ResultRaises(e) == e.fault # "none"

\* The body of the result loop on one event: the registry it leaves, whether
\* or not it raises.
MergeResult(vs, e, now) ==
    IF e.fault = "author" THEN vs
    ELSE LET created == EnsureResultVendor(vs, e.author, now)
             ensured == Put(created, e.author, EnsureResults(created[e.author]))
         IN  IF e.fault = "body" THEN ensured
             ELSE Put(ensured, e.author, RecordResult(ensured[e.author], e, now))

\* ----------------------------------------------------------- request phase
\* Mutant: a request also marks its target as seen.
IncrementRequestCountSeen(rec) ==
    Put(Put(rec, "request_count", Get(rec, "request_count", 0) + 1), "last_seen", 0)

\* Mutant: the counter is initialised on every request instead of only when
\* the field is missing.
IncrementRequestCountReset(rec) == Put(rec, "request_count", 0 + 1)

\* vendors[target]["request_count"] += 1, initialised to 0 when absent
IncrementRequestCount(rec) ==
    Put(rec, "request_count", Get(rec, "request_count", 0) + 1)

\* Mutant: a request seeds a record for a target the registry does not hold.
RequestTagSeeding(vs, tag) ==
    IF Len(tag.vec) >= 2 /\ tag.vec[1] = "p"
    THEN Put(vs, tag.vec[2],
             IF tag.vec[2] \in DOMAIN vs
             THEN Put(vs[tag.vec[2]], "request_count",
                      Get(vs[tag.vec[2]], "request_count", 0) + 1)
             ELSE [pubkey |-> tag.vec[2], request_count |-> 1])
    ELSE vs

\* Mutant: the tag name is not compared with "p".
RequestTagAnyName(vs, tag) ==
    IF Len(tag.vec) >= 2 /\ tag.vec[2] \in DOMAIN vs
    THEN Put(vs, tag.vec[2],
             Put(vs[tag.vec[2]], "request_count",
                 Get(vs[tag.vec[2]], "request_count", 0) + 1))
    ELSE vs

\* One iteration of the tag loop of the request phase.
RequestTag(vs, tag) ==
    IF Len(tag.vec) >= 2 /\ tag.vec[1] = "p" /\ tag.vec[2] \in DOMAIN vs
    THEN Put(vs, tag.vec[2], IncrementRequestCount(vs[tag.vec[2]]))
    ELSE vs

\* The tags the loop handles before it ends or a tag raises.
RECURSIVE HandledTags(_)
HandledTags(tags) ==
    IF tags = <<>> \/ ~Head(tags).ok THEN <<>>
    ELSE <<Head(tags)>> \o HandledTags(Tail(tags))

RECURSIVE RequestTags(_, _)
RequestTags(vs, tags) ==
    IF tags = <<>> THEN vs
    ELSE RequestTags(RequestTag(vs, Head(tags)), Tail(tags))

\* Whether the body of the request loop raises on event e (only tags are read).
RequestRaises(e) == HasBadTag(e.tags)

\* The body of the request loop on one event: the registry it leaves, whether
\* or not it raises.
MergeRequest(vs, e) == RequestTags(vs, HandledTags(e.tags))

\* ---------------------------------------------------------- registry store
\* DATA_FILE on disk: missing, unreadable, or a JSON document (an object, as
\* the set of its key/value members).
NoFile == [state |-> "missing", doc |-> {}]
CorruptFile == [state |-> "corrupt", doc |-> {}]

\* json.dump(vendors, f)
Dump(vs) == [state |-> "json", doc |-> { <<key, vs[key]>> : key \in DOMAIN vs }]

\* json.load(f)
Parse(doc) ==
    [key \in { m[1] : m \in doc } |-> (CHOOSE m \in doc : m[1] = key)[2]]

\* load_existing_data(): {} unless DATA_FILE exists and parses.
load_existing_data(f) == IF f.state = "json" THEN Parse(f.doc) ELSE <<>>

\* Registries written by earlier scans: X announced; X announced and
\* requested, Y seen through a result only.
PriorX == MergeAnnouncement(<<>>, CHOOSE e \in AnnouncementEvents : e.id = "a1", 1)
PriorXY ==
    MergeRequest(
        MergeResult(PriorX, [(CHOOSE e \in ResultEvents : e.id = "r2")
                                EXCEPT !.kind = FIRST_RESULT_KIND], 2),
        CHOOSE e \in RequestEvents : e.id = "q1")
PriorFiles == {NoFile, CorruptFile, Dump(PriorX), Dump(PriorXY)}

\* ------------------------------------------------------------------- state
VARIABLES
    file,          \* DATA_FILE
    vendors,       \* the registry dict of scan_for_dvms
    pc,            \* position of scan_for_dvms
    filter_index,  \* position in result_filters / request_filters (from 1)
    event_list,    \* the events the current query returned
    idx,           \* position of the event loop in event_list (from 1)
    issued,        \* kinds of the fetch_events calls made so far, in order
    query_errors,  \* number of fetch_events calls that raised
    saves,         \* number of save_vendor_data calls
    delivered,     \* number of events returned so far
    handled        \* number of events a loop body has run on

vars == <<file, vendors, pc, filter_index, event_list, idx, issued,
          query_errors, saves, delivered, handled>>

Init ==
    /\ file \in PriorFiles
    /\ vendors = <<>>
    /\ pc = "load"
    /\ filter_index = 1
    /\ event_list = <<>>
    /\ idx = 1
    /\ issued = <<>>
    /\ query_errors = 0
    /\ saves = 0
    /\ delivered = 0
    /\ handled = 0

\* The batches a query for `kind` may return out of `pool`.
Batches(pool, kind) ==
    { [i \in 1..Len(b) |-> [b[i] EXCEPT !.kind = kind]] :
        b \in { c \in SeqsUpTo(pool, MaxBatch) : delivered + Len(c) <= MaxEvents } }

\* fetch_events returned `batch` for `kind`.
Fetched(kind, batch) ==
    /\ issued' = Append(issued, kind)
    /\ event_list' = batch
    /\ idx' = 1
    /\ delivered' = delivered + Len(batch)
    /\ UNCHANGED <<query_errors, handled>>

\* fetch_events for `kind` raised.
FetchFailed(kind) ==
    /\ issued' = Append(issued, kind)
    /\ query_errors' = query_errors + 1
    /\ event_list' = <<>>
    /\ idx' = 1
    /\ UNCHANGED <<delivered, handled>>

\* Mutant: a missing or unreadable DATA_FILE ends the scan.
LoadFatal ==
    /\ pc = "load"
    /\ IF file.state = "json"
       THEN vendors' = Parse(file.doc) /\ pc' = "ann_query"
       ELSE vendors' = vendors /\ pc' = "aborted"
    /\ UNCHANGED <<file, filter_index, event_list, idx, issued, query_errors,
                   saves, delivered, handled>>

\* vendors = load_existing_data()
Load ==
    /\ pc = "load"
    /\ vendors' = load_existing_data(file)
    /\ pc' = "ann_query"
    /\ UNCHANGED <<file, filter_index, event_list, idx, issued, query_errors,
                   saves, delivered,
                   handled>>

\* events = await client.fetch_events(announcement_filter, ...): outside any
\* try, so an error of the query leaves scan_for_dvms.
AnnouncementQuery ==
    /\ pc = "ann_query"
    /\ \/ \E batch \in Batches(AnnouncementEvents, ANNOUNCEMENT_KIND) :
            /\ Fetched(ANNOUNCEMENT_KIND, batch)
            /\ pc' = "ann_loop"
       \/ /\ FetchFailed(ANNOUNCEMENT_KIND)
          /\ pc' = "aborted"
    /\ UNCHANGED <<file, vendors, filter_index, saves>>

\* One iteration of `for event in events.to_vec()`, with its own try/except.
AnnouncementEvent ==
    /\ pc = "ann_loop"
    /\ idx <= Len(event_list)
    /\ \E now \in Time : vendors' = MergeAnnouncement(vendors, event_list[idx], now)
    /\ idx' = idx + 1
    /\ handled' = handled + 1
    /\ UNCHANGED <<file, pc, filter_index, event_list, issued, query_errors,
                   saves, delivered>>

AnnouncementsDone ==
    /\ pc = "ann_loop"
    /\ idx > Len(event_list)
    /\ pc' = "res_query"
    /\ filter_index' = 1
    /\ event_list' = <<>>
    /\ idx' = 1
    /\ UNCHANGED <<file, vendors, issued, query_errors, saves, delivered,
                   handled>>

\* for result_filter in result_filters: try: events = await fetch_events(..)
ResultQuery ==
    /\ pc = "res_query"
    /\ filter_index <= NumResultFilters
    /\ LET kind == FIRST_RESULT_KIND + filter_index - 1 IN
       \/ \E batch \in Batches(ResultEvents, kind) :
            /\ Fetched(kind, batch)
            /\ pc' = "res_loop"
            /\ UNCHANGED filter_index
       \/ /\ FetchFailed(kind)
          /\ filter_index' = filter_index + 1
          /\ UNCHANGED pc
    /\ UNCHANGED <<file, vendors, saves>>

\* One iteration of `for event in event_list` of the result phase.  The try
\* encloses the whole loop: an event that raises ends the loop.
ResultEvent ==
    /\ pc = "res_loop"
    /\ idx <= Len(event_list)
    /\ \E now \in Time : vendors' = MergeResult(vendors, event_list[idx], now)
    /\ IF ResultRaises(event_list[idx])
       THEN /\ pc' = "res_query"
            /\ filter_index' = filter_index + 1
            /\ event_list' = <<>>
            /\ idx' = 1
       ELSE /\ idx' = idx + 1
            /\ UNCHANGED <<pc, filter_index, event_list>>
    /\ handled' = handled + 1
    /\ UNCHANGED <<file, issued, query_errors, saves, delivered>>

ResultBatchDone ==
    /\ pc = "res_loop"
    /\ idx > Len(event_list)
    /\ pc' = "res_query"
    /\ filter_index' = filter_index + 1
    /\ event_list' = <<>>
    /\ idx' = 1
    /\ UNCHANGED <<file, vendors, issued, query_errors, saves, delivered,
                   handled>>

ResultsDone ==
    /\ pc = "res_query"
    /\ filter_index > NumResultFilters
    /\ pc' = "req_query"
    /\ filter_index' = 1
    /\ UNCHANGED <<file, vendors, event_list, idx, issued, query_errors, saves,
                   delivered,
                   handled>>

\* for request_filter in request_filters: try: events = await fetch_events(..)
RequestQuery ==
    /\ pc = "req_query"
    /\ filter_index <= NumRequestFilters
    /\ LET kind == FIRST_REQUEST_KIND + filter_index - 1 IN
       \/ \E batch \in Batches(RequestEvents, kind) :
            /\ Fetched(kind, batch)
            /\ pc' = "req_loop"
            /\ UNCHANGED filter_index
       \/ /\ FetchFailed(kind)
          /\ filter_index' = filter_index + 1
          /\ UNCHANGED pc
    /\ UNCHANGED <<file, vendors, saves>>

\* One iteration of `for event in event_list` of the request phase.  The try
\* encloses the whole loop: an event that raises ends the loop.
RequestEvent ==
    /\ pc = "req_loop"
    /\ idx <= Len(event_list)
    /\ vendors' = MergeRequest(vendors, event_list[idx])
    /\ IF RequestRaises(event_list[idx])
       THEN /\ pc' = "req_query"
            /\ filter_index' = filter_index + 1
            /\ event_list' = <<>>
            /\ idx' = 1
       ELSE /\ idx' = idx + 1
            /\ UNCHANGED <<pc, filter_index, event_list>>
    /\ handled' = handled + 1
    /\ UNCHANGED <<file, issued, query_errors, saves, delivered>>

RequestBatchDone ==
    /\ pc = "req_loop"
    /\ idx > Len(event_list)
    /\ pc' = "req_query"
    /\ filter_index' = filter_index + 1
    /\ event_list' = <<>>
    /\ idx' = 1
    /\ UNCHANGED <<file, vendors, issued, query_errors, saves, delivered,
                   handled>>

RequestsDone ==
    /\ pc = "req_query"
    /\ filter_index > NumRequestFilters
    /\ pc' = "save"
    /\ filter_index' = 1
    /\ UNCHANGED <<file, vendors, event_list, idx, issued, query_errors, saves,
                   delivered,
                   handled>>

\* Mutant: a failed save is attempted again.
SaveRetrying ==
    /\ pc = "save"
    /\ saves' = saves + 1
    /\ \/ /\ file' = [state |-> "json", doc |-> { <<key, vendors[key]>> : key \in DOMAIN vendors }]
          /\ pc' = "summary"
       \/ /\ file' \in {file, CorruptFile}
          /\ pc' = "save"
    /\ UNCHANGED <<vendors, filter_index, event_list, idx, issued, query_errors,
                   delivered, handled>>

\* Mutant: DATA_FILE is opened for appending, so the members of the previous
\* document stay in it.
SaveAppending ==
    /\ pc = "save"
    /\ saves' = saves + 1
    /\ \/ /\ file' = [state |-> "json",
                       doc |-> file.doc \cup { <<key, vendors[key]>> : key \in DOMAIN vendors }]
          /\ pc' = "summary"
       \/ /\ file' \in {file, CorruptFile}
          /\ pc' = "aborted"
    /\ UNCHANGED <<vendors, filter_index, event_list, idx, issued, query_errors,
                   delivered, handled>>

\* save_vendor_data(vendors): open(DATA_FILE, 'w') and json.dump.  When the
\* open raises the file is untouched; when the write raises it is left partial.
Save ==
    /\ pc = "save"
    /\ saves' = saves + 1
    /\ \/ /\ file' = Dump(vendors)
          /\ pc' = "summary"
       \/ /\ file' \in {file, CorruptFile}
          /\ pc' = "aborted"
    /\ UNCHANGED <<vendors, filter_index, event_list, idx, issued, query_errors,
                   delivered,
                   handled>>

\* the summary log of scan_for_dvms
Summary ==
    /\ pc = "summary"
    /\ pc' = "done"
    /\ UNCHANGED <<file, vendors, filter_index, event_list, idx, issued,
                   query_errors, saves, delivered,
                   handled>>

Next ==
    \/ Load
    \/ AnnouncementQuery
    \/ AnnouncementEvent
    \/ AnnouncementsDone
    \/ ResultQuery
    \/ ResultEvent
    \/ ResultBatchDone
    \/ ResultsDone
    \/ RequestQuery
    \/ RequestEvent
    \/ RequestBatchDone
    \/ RequestsDone
    \/ Save
    \/ Summary

Spec == Init /\ [][Next]_vars

\* ================================================================== claims
\* The loop body of a phase is about to run on event_list[idx].
AnnouncementStep == pc = "ann_loop" /\ idx <= Len(event_list)
ResultStep == pc = "res_loop" /\ idx <= Len(event_list)
RequestStep == pc = "req_loop" /\ idx <= Len(event_list)

\* The event the loop body last ran on (idx > 1).
LastEvent == event_list[idx - 1]

\* vendor.get('request_count', 0), as the summary reads it
RequestCount(vs, v) == Get(vs[v], "request_count", 0)

\* Whether a tag is a "p" tag whose second element is v.
NamesTarget(tag, v) == tag.ok /\ Len(tag.vec) >= 2 /\ tag.vec[1] = "p" /\ tag.vec[2] = v

\* Number of "p" tags of `tags` whose second element is v.
PTagCount(tags, v) == Cardinality({ i \in 1..Len(tags) : NamesTarget(tags[i], v) })

\* The tags that precede the first tag that raises (all of them when none does).
TagsBeforeRaise(tags) ==
    SubSeq(tags, 1, IF HasBadTag(tags)
                    THEN (CHOOSE i \in 1..Len(tags) :
                            ~tags[i].ok /\ \A j \in 1..(i - 1) : tags[j].ok) - 1
                    ELSE Len(tags))

\* C1: processing a request event never adds a key to the registry: the set
\* of identities is the same after the event as before, and every identity a
\* "p" tag names that was absent is still absent.
C1_RequestNeverAddsKey ==
    [][RequestStep =>
        /\ DOMAIN vendors' = DOMAIN vendors
        /\ \A i \in 1..Len(event_list[idx].tags) :
             LET tag == event_list[idx].tags[i] IN
             (tag.ok /\ Len(tag.vec) >= 2 /\ tag.vec[1] = "p"
                /\ tag.vec[2] \notin DOMAIN vendors)
             => tag.vec[2] \notin DOMAIN vendors']_vars

\* C1 witness: the request tagged ["p","X"],["p","Z"] has been processed
\* while X is in the registry and Z is not.
C1_Witness ==
    /\ pc = "req_loop" /\ idx = 2
    /\ LastEvent.id = "q1"
    /\ "X" \in DOMAIN vendors
    /\ "Z" \notin DOMAIN vendors

C3_CountOncePerEvent ==
    [][\A v \in DOMAIN vendors :
        /\ v \in DOMAIN vendors'
        /\ RequestCount(vendors', v) >= RequestCount(vendors, v)
        /\ RequestStep =>
             RequestCount(vendors', v)
               = RequestCount(vendors, v)
                   + (IF PTagCount(event_list[idx].tags, v) > 0 THEN 1 ELSE 0)]_vars

\* C3 amended: request_count never decreases over any step; only the
\* processing of a request event changes it, and that adds 1 per handled "p"
\* tag naming the vendor (k tags add k), not 1 per event.
C3_CountMonotonePerTag ==
    [][\A v \in DOMAIN vendors :
        /\ v \in DOMAIN vendors'
        /\ RequestCount(vendors', v) >= RequestCount(vendors, v)
        /\ ~RequestStep => RequestCount(vendors', v) = RequestCount(vendors, v)
        /\ RequestStep =>
             RequestCount(vendors', v) - RequestCount(vendors, v)
               = PTagCount(TagsBeforeRaise(event_list[idx].tags), v)]_vars

\* C3 witness: X, loaded with request_count 1, was named twice by one
\* request event and counts 3.
C3_Witness ==
    /\ pc = "req_loop" /\ idx > 1
    /\ LastEvent.id = "q2"
    /\ "X" \in DOMAIN vendors
    /\ RequestCount(vendors, "X") = 3

\* dict.get(f, []) of a list field, as the summary reads it
Field(rec, f) == Get(rec, f, <<>>)

\* The record of v, or an empty dict when the registry has none.
RecordOf(vs, v) == IF v \in DOMAIN vs THEN vs[v] ELSE <<>>

ServiceIds(rec) == { Field(rec, "services")[i].id : i \in 1..Len(Field(rec, "services")) }

NoDuplicateServices(rec) ==
    \A i, j \in 1..Len(Field(rec, "services")) :
        Field(rec, "services")[i].id = Field(rec, "services")[j].id => i = j

\* The service ids the "d" tags of `tags` name.
DIds(tags) ==
    { tags[i].vec[2] :
        i \in { j \in 1..Len(tags) :
                  tags[j].ok /\ Len(tags[j].vec) >= 2 /\ tags[j].vec[1] = "d" } }

IsPrefix(s, t) == Len(s) <= Len(t) /\ SubSeq(t, 1, Len(s)) = s

Max(a, b) == IF a >= b THEN a ELSE b

\* C4: every announcement event merged without error appends one
\* AnnouncementObservation to its author's record, also when the same event
\* was merged before, and adds a ServiceDescriptor only for a "d" id the
\* record does not hold yet; no record's services list ever holds two
\* descriptors with the same id.
C4_OneDescriptorPerServiceId ==
    [][/\ \A v \in DOMAIN vendors' : NoDuplicateServices(vendors'[v])
       /\ (AnnouncementStep /\ ~AnnouncementRaises(event_list[idx])) =>
            LET e == event_list[idx]
                before == RecordOf(vendors, e.author)
                after == vendors'[e.author]
            IN  /\ Len(after["announcements"]) = Len(Field(before, "announcements")) + 1
                /\ after["announcements"][Len(after["announcements"])].event_id = e.id
                /\ IsPrefix(Field(before, "announcements"), after["announcements"])
                /\ ServiceIds(after) = ServiceIds(before) \cup DIds(e.tags)]_vars

\* C4 witness: the same announcement event was merged twice into one record,
\* which holds two observations of it and one service descriptor.
C4_Witness ==
    \E v \in DOMAIN vendors :
        /\ Len(Field(vendors[v], "announcements")) = 2
        /\ vendors[v]["announcements"][1].event_id = "a1"
        /\ vendors[v]["announcements"][2].event_id = "a1"
        /\ Len(Field(vendors[v], "services")) = 1

\* C5 as stated: an announcement or result merge M leaves last_seen equal to
\* max(last_seen before, M.timestamp), M.timestamp being the observation time
\* of the merge or the creation time of its event; last_seen of a record
\* never decreases.
C5_LastSeenIsMax ==
    [][\A v \in DOMAIN vendors :
        Has(vendors[v], "last_seen") =>
          /\ v \in DOMAIN vendors' /\ Has(vendors'[v], "last_seen")
          /\ vendors'[v]["last_seen"] >= vendors[v]["last_seen"]
          /\ (AnnouncementStep /\ ~AnnouncementRaises(event_list[idx])
                /\ event_list[idx].author = v) =>
               LET obs == vendors'[v]["announcements"][Len(vendors'[v]["announcements"])] IN
               \/ vendors'[v]["last_seen"] = Max(vendors[v]["last_seen"], obs.discovered_at)
               \/ vendors'[v]["last_seen"] = Max(vendors[v]["last_seen"], obs.created_at)
          /\ (ResultStep /\ ~ResultRaises(event_list[idx])
                /\ event_list[idx].author = v) =>
               LET obs == vendors'[v]["results"][Len(vendors'[v]["results"])] IN
               \/ vendors'[v]["last_seen"] = Max(vendors[v]["last_seen"], obs.discovered_at)
               \/ vendors'[v]["last_seen"] = Max(vendors[v]["last_seen"], obs.created_at)]_vars

\* C6 as stated: in every phase an event whose processing raises is skipped
\* alone: the loop goes on with the next event of the same batch.
C6_PerEventCatch ==
    [][/\ (AnnouncementStep /\ AnnouncementRaises(event_list[idx]) /\ idx < Len(event_list))
            => (pc' = pc /\ event_list' = event_list /\ idx' = idx + 1)
       /\ (ResultStep /\ ResultRaises(event_list[idx]) /\ idx < Len(event_list))
            => (pc' = pc /\ event_list' = event_list /\ idx' = idx + 1)
       /\ (RequestStep /\ RequestRaises(event_list[idx]) /\ idx < Len(event_list))
            => (pc' = pc /\ event_list' = event_list /\ idx' = idx + 1)]_vars

\* C7 as stated: a query that raises contributes no events and the scan goes
\* on: it is not aborted by the error, and it never ends without a save.
C7_TransportErrorRecovered ==
    [][/\ query_errors' > query_errors =>
            /\ pc' \in {"res_query", "req_query"}
            /\ vendors' = vendors
            /\ delivered' = delivered
       /\ (pc' = "aborted" /\ query_errors' > 0) => saves' > 0]_vars

PhaseOf(kind) ==
    IF kind = ANNOUNCEMENT_KIND THEN 1 ELSE IF kind \in ResultKinds THEN 2 ELSE 3

\* C8 as stated: queries are issued phase by phase (announcements, results,
\* requests); whenever a query is about to be issued every event returned so
\* far has been handed to the merge; save is triggered once, after the last
\* query, and a scan that has ended has triggered it.
C8_PhasesInOrderThenOneSave ==
    /\ \A i, j \in 1..Len(issued) : i < j => PhaseOf(issued[i]) <= PhaseOf(issued[j])
    /\ pc \in {"ann_query", "res_query", "req_query", "save"} => handled = delivered
    /\ saves <= 1
    /\ saves = 1 => /\ pc \in {"summary", "done", "aborted"}
                    /\ Len(issued) = 1 + NumResultFilters + NumRequestFilters
    /\ pc \in {"done", "aborted"} => saves = 1

\* C9: over every step the announcements, services and results of every
\* record only grow by appending: the old sequence is a prefix of the new.
C9_SequencesOnlyGrow ==
    [][\A v \in DOMAIN vendors :
        /\ v \in DOMAIN vendors'
        /\ \A f \in {"announcements", "services", "results"} :
             IsPrefix(Field(vendors[v], f), Field(vendors'[v], f))]_vars

\* C9 witness: a record that came with one result and one announcement has
\* received a second result.
C9_Witness ==
    /\ pc = "res_loop" /\ idx > 1
    /\ \E v \in DOMAIN vendors :
         /\ Len(Field(vendors[v], "results")) = 2
         /\ LastEvent.author = v

\* C10: a record for V appears exactly in the step that processes an
\* announcement or result event whose author is V while V is absent; the
\* first announcement merged without error leaves that record with one
\* observation and the services its "d" tags name, the first result with one
\* result; no other identity is added and no identity is ever removed.
C10_LazyCreation ==
    [][/\ DOMAIN vendors \subseteq DOMAIN vendors'
       /\ \A v \in DOMAIN vendors' \ DOMAIN vendors :
            \/ pc = "load"
            \/ /\ AnnouncementStep \/ ResultStep
               /\ event_list[idx].fault # "author"
               /\ event_list[idx].author = v
               /\ vendors'[v]["pubkey"] = v
       /\ ((AnnouncementStep \/ ResultStep) /\ event_list[idx].fault # "author")
            => /\ event_list[idx].author \in DOMAIN vendors'
               /\ DOMAIN vendors' = DOMAIN vendors \cup {event_list[idx].author}
       /\ (AnnouncementStep /\ ~AnnouncementRaises(event_list[idx])
             /\ event_list[idx].author \notin DOMAIN vendors)
            => LET rec == vendors'[event_list[idx].author] IN
               /\ Len(rec["announcements"]) = 1
               /\ Len(rec["services"]) = Cardinality(DIds(event_list[idx].tags))
               /\ ServiceIds(rec) = DIds(event_list[idx].tags)
       /\ (ResultStep /\ ~ResultRaises(event_list[idx])
             /\ event_list[idx].author \notin DOMAIN vendors)
            => LET rec == vendors'[event_list[idx].author] IN
               /\ Len(rec["results"]) = 1
               /\ rec["announcements"] = <<>> /\ rec["services"] = <<>>]_vars

\* C10 witness: from an empty registry one announcement from X tagged
\* ["d","svc1"],["k","5000"] left one record, for X, with services [svc1] and
\* one announcement.
C10_Witness ==
    /\ pc = "ann_loop" /\ idx = 2 /\ Len(event_list) = 1
    /\ file \in {NoFile, CorruptFile}
    /\ LastEvent.id = "a1"
    /\ DOMAIN vendors = {"X"}
    /\ Len(vendors["X"]["announcements"]) = 1
    /\ vendors["X"]["services"] = <<[id |-> "svc1", type |-> "unknown"]>>

\* C11: first_seen and pubkey of a record, loaded or created, are the same
\* after every step as before it.
C11_FirstSeenAndIdentityFixed ==
    [][\A v \in DOMAIN vendors :
        /\ v \in DOMAIN vendors'
        /\ vendors'[v]["first_seen"] = vendors[v]["first_seen"]
        /\ vendors'[v]["pubkey"] = vendors[v]["pubkey"]
        /\ vendors'[v]["pubkey"] = v]_vars

\* C11 witness: X, loaded with first_seen 1, was merged an announcement at
\* time 2 and still has first_seen 1.
C11_Witness ==
    /\ pc = "ann_loop" /\ idx > 1
    /\ LastEvent.author = "X" /\ ~AnnouncementRaises(LastEvent)
    /\ file = Dump(PriorX)
    /\ vendors["X"]["last_seen"] = 2
    /\ vendors["X"]["first_seen"] = 1
    /\ Len(vendors["X"]["announcements"]) = 2

\* The fields of a VendorRecord the data model enumerates.
AllRecordFields ==
    {"pubkey", "first_seen", "last_seen", "announcements", "services", "results",
     "request_count"}

\* The fields every record is created with.
CreationFields == {"pubkey", "npub", "first_seen", "announcements", "services"}

\* The records of the document save has written.
SavedRecords == { m[2] : m \in file.doc }

\* C12 as stated: every record of a snapshot written by save carries all the
\* fields of the data model.
C12_AllFieldsSaved ==
    (pc \in {"summary", "done"}) =>
        \A rec \in SavedRecords : AllRecordFields \subseteq DOMAIN rec

\* C12 amended: every record of the registry, and so of a snapshot written by
\* save, carries pubkey, npub, first_seen, announcements and services;
\* last_seen, results and request_count are the only other fields, each
\* present only once a merge has set it: a record that holds an observation
\* has last_seen, and a record that holds no result field has no result.
C12_CreationFieldsSaved ==
    /\ \A v \in DOMAIN vendors :
         /\ CreationFields \subseteq DOMAIN vendors[v]
         /\ DOMAIN vendors[v] \subseteq CreationFields \cup AllRecordFields
         /\ (Len(vendors[v]["announcements"]) + Len(Field(vendors[v], "results")) > 0)
              => Has(vendors[v], "last_seen")
    /\ (pc \in {"summary", "done"}) =>
         /\ file.state = "json"
         /\ \A rec \in SavedRecords : CreationFields \subseteq DOMAIN rec

\* C12 witness: save has written a record that has neither results nor
\* request_count, and one that has no last_seen.
C12_Witness ==
    /\ pc = "summary"
    /\ \E rec \in SavedRecords : ~Has(rec, "results") /\ ~Has(rec, "request_count")
    /\ \E rec \in SavedRecords : ~Has(rec, "last_seen")

\* C13: save is attempted at most once per scan; a failed save ends the scan
\* (nothing runs after it: no summary, no second save), and the summary is
\* produced only after a save that wrote the registry.
C13_SaveFailureFatal ==
    [][/\ saves' <= 1
       /\ pc = "save" => /\ saves = 0 /\ saves' = 1
                         /\ \/ pc' = "summary" /\ file' = Dump(vendors)
                            \/ pc' = "aborted"
       /\ pc = "aborted" => FALSE
       /\ pc' \in {"summary", "done"} => (saves' = 1 /\ file' = Dump(vendors'))]_vars

\* C13 witness: the scan ran its three phases, its one save failed and the
\* scan has ended without a summary.
C13_Witness ==
    /\ pc = "aborted"
    /\ saves = 1
    /\ Len(issued) = 1 + NumResultFilters + NumRequestFilters

\* C14: when DATA_FILE is missing or unreadable, load leaves an empty
\* registry and the scan goes on to the announcement query; the registry of
\* such a scan holds only what its own merges put there.
C14_LoadFailureIsEmpty ==
    [][pc = "load" =>
        /\ pc' = "ann_query"
        /\ file.state # "json" => vendors' = <<>>
        /\ file.state = "json" =>
             /\ DOMAIN vendors' = { m[1] : m \in file.doc }
             /\ \A m \in file.doc : vendors'[m[1]] = m[2]]_vars

\* C14 witness: a scan that found DATA_FILE unreadable has run all its
\* queries, merged an event and reached save.
C14_Witness ==
    /\ pc = "save"
    /\ file = CorruptFile
    /\ Len(issued) = 1 + NumResultFilters + NumRequestFilters
    /\ vendors # <<>>

Min(a, b) == IF a <= b THEN a ELSE b

\* content[:500] on contents around the limit: the excerpt is the whole
\* content up to 500 code units and has length 500 from there on.
TruncateAtLimit ==
    \A n \in {0, 1, CONTENT_LIMIT - 1, CONTENT_LIMIT, CONTENT_LIMIT + 1, 600} :
        /\ Len(Truncate(Str(n))) = Min(n, CONTENT_LIMIT)
        /\ IsPrefix(Truncate(Str(n)), Str(n))

\* C16: a result event merged without error appends to its author's results
\* one observation whose content is the first min(500, length) code units of
\* the event content (length 500 for any content of 500 or more), and leaves
\* every other record as it was.
C16_ExcerptTruncated ==
    [][/\ TruncateAtLimit
       /\ (ResultStep /\ ~ResultRaises(event_list[idx])) =>
            LET e == event_list[idx]
                before == Field(RecordOf(vendors, e.author), "results")
                after == vendors'[e.author]["results"]
                obs == after[Len(after)]
            IN  /\ Len(after) = Len(before) + 1
                /\ IsPrefix(before, after)
                /\ obs.event_id = e.id
                /\ Len(obs.content) = Min(Len(e.content), CONTENT_LIMIT)
                /\ obs.content = SubSeq(e.content, 1, Len(obs.content))
                /\ Len(obs.content) <= CONTENT_LIMIT
                /\ Len(e.content) >= CONTENT_LIMIT => Len(obs.content) = CONTENT_LIMIT
                /\ \A v \in DOMAIN vendors' \ {e.author} :
                     v \in DOMAIN vendors /\ vendors'[v] = vendors[v]]_vars

\* C16 witness: the registry held X, and a result event of kind 6000 from X
\* with 600 code units of content left an observation of length 500.
C16_Witness ==
    /\ pc = "res_loop" /\ idx > 1
    /\ file = Dump(PriorX)
    /\ LastEvent.author = "X" /\ Len(LastEvent.content) = 600 /\ LastEvent.kind = 6000
    /\ Len(vendors["X"]["results"][Len(vendors["X"]["results"])].content) = 500

\* A record without the values read from the clock.
StripObservationTimes(list) ==
    [i \in 1..Len(list) |->
        [f \in DOMAIN list[i] \ {"discovered_at"} |-> list[i][f]]]

StripRecordTimes(rec) ==
    [f \in DOMAIN rec \ {"first_seen", "last_seen"} |->
        IF f \in {"announcements", "results"} THEN StripObservationTimes(rec[f])
        ELSE rec[f]]

StripTimes(vs) == [v \in DOMAIN vs |-> StripRecordTimes(vs[v])]

\* C17 as stated: the registry after a merge is determined by the registry
\* before it, the event and the phase: whatever the merge could have
\* produced from that state and that event is what it produced.
C17_MergeIsPure ==
    [][/\ AnnouncementStep =>
            \A now \in Time : vendors' = MergeAnnouncement(vendors, event_list[idx], now)
       /\ ResultStep =>
            \A now \in Time : vendors' = MergeResult(vendors, event_list[idx], now)
       /\ RequestStep => vendors' = MergeRequest(vendors, event_list[idx])]_vars

\* C17 amended: the registry after a merge is determined by the registry
\* before it, the event, the phase and the clock reading of the merge: the
\* clock decides first_seen, last_seen and discovered_at and nothing else,
\* and a request merge does not depend on the clock at all.
C17_MergePureUpToClock ==
    [][/\ AnnouncementStep =>
            /\ \E now \in Time : vendors' = MergeAnnouncement(vendors, event_list[idx], now)
            /\ \A now \in Time :
                 StripTimes(vendors')
                   = StripTimes(MergeAnnouncement(vendors, event_list[idx], now))
       /\ ResultStep =>
            /\ \E now \in Time : vendors' = MergeResult(vendors, event_list[idx], now)
            /\ \A now \in Time :
                 StripTimes(vendors')
                   = StripTimes(MergeResult(vendors, event_list[idx], now))
       /\ RequestStep => vendors' = MergeRequest(vendors, event_list[idx])]_vars

\* C17 witness: an announcement was merged at clock reading 2 into a record
\* last seen at 1; the same merge at reading 1 gives another registry.
C17_Witness ==
    /\ pc = "ann_loop" /\ idx = 2
    /\ file = Dump(PriorX)
    /\ LastEvent.id = "a1"
    /\ vendors["X"]["last_seen"] = 2
    /\ vendors # MergeAnnouncement(PriorX, LastEvent, 1)

\* The kinds a scan has to query: the announcement kind, the kinds of the
\* result filters and the kinds of the request filters.
FilterKinds == {ANNOUNCEMENT_KIND} \cup ResultKinds \cup RequestKinds

\* C18 as stated: queries are issued one at a time, phase by phase, no kind is
\* ever queried a second time, and a scan that has ended has issued one query
\* for every kind of every phase.
C18_OneQueryPerKind ==
    /\ \A i, j \in 1..Len(issued) : issued[i] = issued[j] => i = j
    /\ \A i, j \in 1..Len(issued) : i < j => PhaseOf(issued[i]) <= PhaseOf(issued[j])
    /\ \A i \in 1..Len(issued) : issued[i] \in FilterKinds
    /\ pc \in {"ann_loop", "res_loop", "req_loop"} => Len(issued) > 0
    /\ pc \in {"done", "aborted"} =>
         \A kind \in FilterKinds : \E i \in 1..Len(issued) : issued[i] = kind

\* C19 as stated: an event whose processing raises, in any phase, leaves the
\* registry exactly as it was before the event.
C19_SkipIsAllOrNothing ==
    [][/\ (AnnouncementStep /\ AnnouncementRaises(event_list[idx])) => vendors' = vendors
       /\ (ResultStep /\ ResultRaises(event_list[idx])) => vendors' = vendors
       /\ (RequestStep /\ RequestRaises(event_list[idx])) => vendors' = vendors]_vars

\* C20: a request event changes nothing but request_count, and only of
\* records that were present: the identities and every other field of every
\* record are as before, a record no handled "p" tag names is untouched, and
\* an event without a well-formed "p" tag naming a present identity changes
\* nothing at all.
C20_RequestFrame ==
    [][RequestStep =>
        /\ DOMAIN vendors' = DOMAIN vendors
        /\ \A v \in DOMAIN vendors :
             /\ DOMAIN vendors'[v] \subseteq DOMAIN vendors[v] \cup {"request_count"}
             /\ \A f \in DOMAIN vendors[v] \ {"request_count"} :
                  f \in DOMAIN vendors'[v] /\ vendors'[v][f] = vendors[v][f]
             /\ PTagCount(TagsBeforeRaise(event_list[idx].tags), v) = 0
                  => vendors'[v] = vendors[v]
        /\ (\A v \in DOMAIN vendors : PTagCount(event_list[idx].tags, v) = 0)
             => vendors' = vendors]_vars

\* C20 witness: a request with a one-element "p" tag, an "e" tag naming X and
\* a "p" tag naming Y was processed: Y counts one request and X, loaded
\* without a request_count, is as it was loaded.
C20_Witness ==
    /\ pc = "req_loop" /\ idx = 2 /\ handled = 1
    /\ LastEvent.id = "q4"
    /\ file = Dump(PriorX)
    /\ vendors = PriorX

====
